---- MODULE Spec2Model ----
(***************************************************************************)
(* Model of the Daily Trivia server (server/index.ts): the users file, the *)
(* date utilities, the question selection and the HTTP handlers            *)
(* GET /api/user/:fid, POST /api/answer, GET /api/question and             *)
(* GET /api/leaderboard.                                                   *)
(*                                                                         *)
(* users is the content last written to the users file; disk.state tells   *)
(* whether the file is readable ("ok"), unparseable ("corrupt") or absent  *)
(* ("missing").                                                            *)
(*                                                                         *)
(* Time is an instant counted in ticks; TicksPerDay ticks make one UTC     *)
(* day.  The host's zone offset tz (in ticks) is fixed per process.  A     *)
(* handler that reads the clock several times may see the clock advance    *)
(* between two reads.                                                      *)
(***************************************************************************)
EXTENDS Integers, Sequences, FiniteSets, TLC

VARIABLES now, tz, users, disk, pending, log, scored

vars == <<now, tz, users, disk, pending, log, scored>>

----------------------------------------------------------------------------
(* Bounds of the model *)

TicksPerDay == 2
NumDays == 3
StartDay == 2
MaxFaults == 1

FirstTick == StartDay * TicksPerDay
LastTick == (StartDay + NumDays) * TicksPerDay - 1
Ticks == FirstTick..LastTick
TZOffsets == {-1, 0, 1}
Slots == {1, 2}

----------------------------------------------------------------------------
(* JavaScript values that occur in request bodies and records *)

Undef == [t |-> "undefined", n |-> 0, s |-> <<>>]
Num(k) == [t |-> "number", n |-> k, s |-> <<>>]
Str(x) == [t |-> "string", n |-> 0, s |-> x]
NaN == [t |-> "NaN", n |-> 0, s |-> <<>>]

Truthy(v) == \/ v.t = "number" /\ v.n # 0
             \/ v.t = "string" /\ v.s # <<>>

DigitChars == <<"0", "1", "2", "3", "4", "5", "6", "7", "8", "9">>

IsDigit(c) == \E i \in 1..10 : DigitChars[i] = c

DigitVal(c) == (CHOOSE i \in 1..10 : DigitChars[i] = c) - 1

RECURSIVE ToDec(_)
ToDec(k) == IF k < 10 THEN <<DigitChars[k + 1]>>
            ELSE Append(ToDec(k \div 10), DigitChars[(k % 10) + 1])

\* String(fid): the key under which a record is stored
String(v) == IF v.t = "number" THEN ToDec(v.n) ELSE v.s

RECURSIVE DigitsValue(_, _)
DigitsValue(str, acc) ==
    IF str = <<>> \/ ~IsDigit(Head(str)) THEN acc
    ELSE DigitsValue(Tail(str), acc * 10 + DigitVal(Head(str)))

\* parseInt(param): the leading decimal digits, NaN when there are none
parseInt(str) == IF str = <<>> \/ ~IsDigit(Head(str)) THEN NaN
                 ELSE Num(DigitsValue(str, 0))

isNaN(v) == v.t = "NaN"

----------------------------------------------------------------------------
(* Calendar: day numbers and civil dates *)

BaseDate == <<2025, 12, 28>>

IsLeap(y) == (y % 4 = 0 /\ y % 100 # 0) \/ y % 400 = 0

DaysInMonth(y, m) ==
    IF m = 2 THEN (IF IsLeap(y) THEN 29 ELSE 28)
    ELSE IF m \in {4, 6, 9, 11} THEN 30 ELSE 31

NextDate(d) ==
    IF d[3] < DaysInMonth(d[1], d[2]) THEN <<d[1], d[2], d[3] + 1>>
    ELSE IF d[2] < 12 THEN <<d[1], d[2] + 1, 1>>
    ELSE <<d[1] + 1, 1, 1>>

RECURSIVE CivilOf(_)
CivilOf(n) == IF n = 0 THEN BaseDate ELSE NextDate(CivilOf(n - 1))

DayOf(t) == t \div TicksPerDay
TimeOfDay(t) == t % TicksPerDay

\* local wall-clock reading of the instant t, and back
ToLocal(t) == t + tz
FromLocal(l) == l - tz

Null == <<>>

\* new Date().toISOString().split('T')[0]: the UTC date of the instant
getTodayString(t) == CivilOf(DayOf(t))

\* setDate(getDate() - 1) steps one day back on the local calendar keeping
\* the local time of day; toISOString then gives the UTC date of that
getYesterdayString(t) ==
    LET l == ToLocal(t)
        back == (DayOf(l) - 1) * TicksPerDay + TimeOfDay(l)
    IN  CivilOf(DayOf(FromLocal(back)))

----------------------------------------------------------------------------
(* Question catalog and selection *)

CatalogSize == 40
NumOptions == 4

NumCategories == 4

\* the entries of questions.json: texts are told apart by the entry's
\* number, options by their count
questions == [i \in 0..(CatalogSize - 1) |->
                 [id |-> i + 1, question |-> i + 1, options |-> NumOptions,
                  correct |-> i % 2, category |-> i % NumCategories,
                  funFact |-> i + 1]]

\* getFullYear(), getMonth() + 1, getDate(): the local calendar date
LocalDate(t) == CivilOf(DayOf(ToLocal(t)))

Seed(d) == d[1] * 10000 + d[2] * 100 + d[3]

\* the seed taken from the UTC date of the day key instead
QuestionIndexUtc(t) == Seed(getTodayString(t)) % CatalogSize

\* seed % questions.length for a catalog of n entries
IndexFor(d, n) == Seed(d) % n

QuestionIndex(t) == IndexFor(LocalDate(t), CatalogSize)

getTodaysQuestion(t) == questions[QuestionIndex(t)]

\* the days of year y before its month m
RECURSIVE DaysBefore(_, _)
DaysBefore(y, m) ==
    IF m = 1 THEN 0 ELSE DaysInMonth(y, m - 1) + DaysBefore(y, m - 1)

\* getQuestionNumber: whole days from local midnight of new Date(year, 0, 0)
\* (31 December of the year before) to the instant
getQuestionNumber(t) ==
    LET d == LocalDate(t)
        start == (DayOf(ToLocal(t)) - (DaysBefore(d[1], d[2]) + d[3]))
                   * TicksPerDay
        diff == ToLocal(t) - start
    IN  diff \div TicksPerDay

\* the body c.json({...q, questionNumber}) of a handler that passes the
\* whole catalog entry on
QuestionJsonWhole(q, number) ==
    [f \in DOMAIN q \cup {"questionNumber"} |->
        IF f = "questionNumber" THEN number ELSE q[f]]

\* the body of the GET /api/question response
QuestionJson(q, number) ==
    [id |-> q.id, question |-> q.question, options |-> q.options,
     category |-> q.category, questionNumber |-> number]

\* GET /api/question on the catalog cat; t1 and t2 are the instants of the
\* clock reads of getTodaysQuestion and getQuestionNumber
HandleGetQuestion(cat, t1, t2) ==
    QuestionJson(cat[QuestionIndex(t1)], getQuestionNumber(t2))

----------------------------------------------------------------------------
(* The users file *)

\* loadUsers: { users: {} } when the file is missing or JSON.parse throws
loadUsers == IF disk.state = "ok" THEN users ELSE <<>>

Has(obj, k) == k \in DOMAIN obj

\* { ...obj, [k]: v }
Put(obj, k, v) == [x \in DOMAIN obj \cup {k} |-> IF x = k THEN v ELSE obj[x]]

NewUser(fid) ==
    [fid |-> fid, username |-> Undef, currentStreak |-> 0,
     longestStreak |-> 0, lastPlayed |-> Null, lastCorrect |-> FALSE,
     totalPlayed |-> 0, totalCorrect |-> 0, answers |-> <<>>]

\* getUser without the existence test: the record is rebuilt on every call
getUserFileFresh(file, fid) == Put(file, String(fid), NewUser(fid))

\* getUser: the file after the call (the record is created and saved
\* when the key is missing)
getUserFile(file, fid) ==
    IF Has(file, String(fid)) THEN file
    ELSE Put(file, String(fid), NewUser(fid))

getUser(file, fid) == getUserFile(file, fid)[String(fid)]

\* the spread written in the other order, { ...data, ...rec }: the fields of
\* the stored record win over the update
MergeReversed(rec, data) ==
    [f \in DOMAIN rec \cup DOMAIN data |->
        IF f \in DOMAIN rec THEN rec[f] ELSE data[f]]

\* { ...rec, ...data }
Merge(rec, data) ==
    [f \in DOMAIN rec |-> IF f \in DOMAIN data THEN data[f] ELSE rec[f]]

\* the db object that saveUsers writes back as the whole file
saveUsers(db) == db

\* updateUser that starts from an empty db instead of the loaded one
updateUserAlone(file, fid, data) ==
    saveUsers(Put(<<>>, String(fid), Merge(getUser(file, fid), data)))

\* updateUser: db is loaded first, getUser may create the record in the
\* file, and the db loaded first is written back with the merged record
updateUser(file, fid, data) ==
    LET db == file
        rec == Merge(getUser(file, fid), data)
    IN  saveUsers(Put(db, String(fid), rec))

----------------------------------------------------------------------------
(* getLeaderboard *)

\* a key that JavaScript treats as an array index: decimal digits without a
\* leading zero
IsArrayIndex(k) ==
    /\ k # <<>>
    /\ \A i \in 1..Len(k) : IsDigit(k[i])
    /\ (Len(k) = 1 \/ k[1] # "0")

RECURSIVE Ascending(_)
Ascending(keys) ==
    IF keys = {} THEN <<>>
    ELSE LET k == CHOOSE x \in keys :
                    \A y \in keys : DigitsValue(x, 0) <= DigitsValue(y, 0)
         IN  <<k>> \o Ascending(keys \ {k})

RECURSIVE InSomeOrder(_)
InSomeOrder(keys) ==
    IF keys = {} THEN <<>>
    ELSE LET k == CHOOSE x \in keys : TRUE
         IN  <<k>> \o InSomeOrder(keys \ {k})

\* Object.values(db.users): array-index keys in ascending order, then the
\* other keys (in insertion order, which the file model does not keep; the
\* stores considered have at most one such key)
ObjectValues(file) ==
    LET idx == {k \in DOMAIN file : IsArrayIndex(k)}
        order == Ascending(idx) \o InSomeOrder(DOMAIN file \ idx)
    IN  [i \in 1..Len(order) |-> file[order[i]]]

\* the comparator without the totalCorrect tie-break
CompareStreakOnly(a, b) == b.longestStreak - a.longestStreak

\* b.longestStreak - a.longestStreak || b.totalCorrect - a.totalCorrect
Compare(a, b) ==
    IF b.longestStreak - a.longestStreak # 0
    THEN b.longestStreak - a.longestStreak
    ELSE b.totalCorrect - a.totalCorrect

\* Array.prototype.sort is stable: an element goes after the elements that
\* do not compare greater than it
RECURSIVE Insert(_, _)
Insert(sorted, x) ==
    IF sorted = <<>> THEN <<x>>
    ELSE IF Compare(Head(sorted), x) <= 0
         THEN <<Head(sorted)>> \o Insert(Tail(sorted), x)
         ELSE <<x>> \o sorted

RECURSIVE Sort(_)
Sort(arr) ==
    IF arr = <<>> THEN <<>>
    ELSE Insert(Sort(SubSeq(arr, 1, Len(arr) - 1)), arr[Len(arr)])

\* arr.slice(0, end): a negative end counts from the end of the array
Slice(arr, end) ==
    LET e == IF end < 0
             THEN (IF Len(arr) + end > 0 THEN Len(arr) + end ELSE 0)
             ELSE (IF end < Len(arr) THEN end ELSE Len(arr))
    IN  SubSeq(arr, 1, e)

Entry(u) == [fid |-> u.fid, username |-> u.username,
             streak |-> u.longestStreak, total |-> u.totalCorrect]

getLeaderboard(file, limit) ==
    LET top == Slice(Sort(ObjectValues(file)), limit)
    IN  [i \in 1..Len(top) |-> Entry(top[i])]

\* the limit GET /api/leaderboard passes
ApiLimit == 20

----------------------------------------------------------------------------
(* POST /api/answer: the pieces of the handler *)

Idle == [kind |-> "idle"]

Body(fid, username, answerIndex) ==
    [kind |-> "body", fid |-> fid, username |-> username,
     answerIndex |-> answerIndex]

\* !fid || answerIndex === undefined
MissingFields(body) == ~Truthy(body.fid) \/ body.answerIndex = Undef

\* the replay test without the day: whoever has played once is refused
AlreadyPlayedEver(user, today) == user.lastPlayed # Null

\* the replay test applied only to a correct last answer
AlreadyPlayedIfCorrect(user, today) ==
    user.lastPlayed = today /\ user.lastCorrect

\* user.lastPlayed === today
AlreadyPlayed(user, today) == user.lastPlayed = today

\* answerIndex === question.correct
IsCorrect(answerIndex, question) == answerIndex = Num(question.correct)

\* the streak continued without the test that the last play was yesterday
NewStreakNoGap(user, isCorrect, yesterday) ==
    IF isCorrect
    THEN IF user.lastCorrect THEN user.currentStreak + 1 ELSE 1
    ELSE 0

\* the streak computed without looking at isCorrect
NewStreakUnguarded(user, isCorrect, yesterday) ==
    IF user.lastPlayed = yesterday /\ user.lastCorrect
    THEN user.currentStreak + 1
    ELSE 1

NewStreak(user, isCorrect, yesterday) ==
    IF isCorrect
    THEN IF user.lastPlayed = yesterday /\ user.lastCorrect
         THEN user.currentStreak + 1
         ELSE 1
    ELSE 0

\* Math.max replaced by its first argument
MaxFirst(a, b) == a

\* Math.min written for Math.max
MinOf(a, b) == IF a <= b THEN a ELSE b

Max(a, b) == IF a >= b THEN a ELSE b

\* totalCorrect incremented on every scored submit
ScoredDataCountAll(user, username, today, isCorrect, newStreak) ==
    [username |-> IF Truthy(username) THEN username ELSE user.username,
     currentStreak |-> newStreak,
     longestStreak |-> Max(newStreak, user.longestStreak),
     lastPlayed |-> today,
     lastCorrect |-> isCorrect,
     totalPlayed |-> user.totalPlayed + 1,
     totalCorrect |-> user.totalCorrect + 1,
     answers |-> Put(user.answers, today,
                     [correct |-> isCorrect, date |-> today])]

\* answers written without the spread of the earlier entries
ScoredDataNoSpread(user, username, today, isCorrect, newStreak) ==
    [username |-> IF Truthy(username) THEN username ELSE user.username,
     currentStreak |-> newStreak,
     longestStreak |-> Max(newStreak, user.longestStreak),
     lastPlayed |-> today,
     lastCorrect |-> isCorrect,
     totalPlayed |-> user.totalPlayed + 1,
     totalCorrect |-> user.totalCorrect + (IF isCorrect THEN 1 ELSE 0),
     answers |-> Put(<<>>, today, [correct |-> isCorrect, date |-> today])]

\* the update without today's entry in answers
ScoredDataNoAnswer(user, username, today, isCorrect, newStreak) ==
    [username |-> IF Truthy(username) THEN username ELSE user.username,
     currentStreak |-> newStreak,
     longestStreak |-> Max(newStreak, user.longestStreak),
     lastPlayed |-> today,
     lastCorrect |-> isCorrect,
     totalPlayed |-> user.totalPlayed + 1,
     totalCorrect |-> user.totalCorrect + (IF isCorrect THEN 1 ELSE 0),
     answers |-> user.answers]

\* the Partial<UserData> handed to updateUser
ScoredData(user, username, today, isCorrect, newStreak) ==
    [username |-> IF Truthy(username) THEN username ELSE user.username,
     currentStreak |-> newStreak,
     longestStreak |-> Max(newStreak, user.longestStreak),
     lastPlayed |-> today,
     lastCorrect |-> isCorrect,
     totalPlayed |-> user.totalPlayed + 1,
     totalCorrect |-> user.totalCorrect + (IF isCorrect THEN 1 ELSE 0),
     answers |-> Put(user.answers, today,
                     [correct |-> isCorrect, date |-> today])]

\* user.answers[today]
AnswerFor(user, today) ==
    IF Has(user.answers, today) THEN user.answers[today] ELSE Undef

\* what the handler read from the clock (kept with the response so that
\* properties can refer to it)
Reads(t1, t2, t3) ==
    [today |-> getTodayString(t1), yesterday |-> getYesterdayString(t2),
     question |-> getTodaysQuestion(t3), local |-> LocalDate(t3)]

\* the handler after `await c.req.json()`: the users file it leaves, the
\* response, and whether the submit was scored; t1, t2, t3 are the instants
\* of the three clock reads
HandleAnswer(file, body, t1, t2, t3) ==
    IF MissingFields(body)
    THEN [file |-> file, isScored |-> FALSE,
          resp |-> [route |-> "POST /api/answer", body |-> body,
                    status |-> 400,
                    error |-> "Missing fid or answerIndex"]]
    ELSE
    LET fid == body.fid
        loaded == getUserFile(file, fid)
        user == getUser(file, fid)
        reads == Reads(t1, t2, t3)
        isCorrect == IsCorrect(body.answerIndex, reads.question)
        newStreak == NewStreak(user, isCorrect, reads.yesterday)
        data == ScoredData(user, body.username, reads.today, isCorrect,
                           newStreak)
        saved == updateUser(loaded, fid, data)
    IN  IF AlreadyPlayed(user, reads.today)
        THEN [file |-> loaded, isScored |-> FALSE,
              resp |-> [route |-> "POST /api/answer", body |-> body,
                        status |-> 400, error |-> "Already played today",
                        user |-> user,
                        todaysAnswer |-> AnswerFor(user, reads.today),
                        reads |-> reads]]
        ELSE [file |-> saved, isScored |-> TRUE,
              resp |-> [route |-> "POST /api/answer", body |-> body,
                        status |-> 200, error |-> "", success |-> TRUE,
                        isCorrect |-> isCorrect,
                        correctAnswer |-> reads.question.correct,
                        user |-> saved[String(fid)],
                        reads |-> reads]]

\* a write error that is caught and ignored: the handler answers as if the
\* save had succeeded
OnWriteErrorSwallowed(resp) == resp

\* the response after an exception in the handler (a saveUsers that
\* throws): Hono's default error handler
OnWriteError(resp) ==
    [route |-> resp.route, status |-> 500,
     error |-> "Internal Server Error"]

\* the number of saveUsers calls of the handler: one when getUser creates
\* the record, one for updateUser
Saves(file, body, t1, t2, t3) ==
    IF MissingFields(body) THEN 0
    ELSE (IF Has(file, String(body.fid)) THEN 0 ELSE 1)
         + (IF HandleAnswer(file, body, t1, t2, t3).isScored THEN 1 ELSE 0)

\* the handler when its k-th saveUsers call throws: the earlier save (the
\* record created by getUser) stays written, the failed one leaves the
\* file as it was
HandleAnswerFailing(file, body, t1, t2, t3, k) ==
    [file |-> IF k = 1 THEN file ELSE getUserFile(file, body.fid),
     isScored |-> FALSE,
     resp |-> OnWriteError(HandleAnswer(file, body, t1, t2, t3).resp)]

\* the file after a handler that read `loadUsers` and left `after`: it is
\* rewritten (and readable again) when the handler saved
Persist(after) ==
    /\ users' = IF after # loadUsers THEN after ELSE users
    /\ disk' = IF after # loadUsers THEN [disk EXCEPT !.state = "ok"]
               ELSE disk

\* the slots, other than s, whose handler is suspended
Others(s) == {o \in DOMAIN pending \ {s} : pending[o] # Idle}

NoLog == [at |-> [route |-> "none", status |-> 0, error |-> ""], others |-> {}]

Bump(cnt, k) == Put(cnt, k, IF Has(cnt, k) THEN cnt[k] + 1 ELSE 1)

\* the instants at which a handler that reads the clock first at `now` can
\* read it again
ClockReads == {t \in now..(now + 1) : t <= LastTick}

----------------------------------------------------------------------------
(* Actions *)

\* a POST /api/answer request arrives in slot s; the handler is suspended
\* at `await c.req.json()` until Answer(s)
Arrive(s, bodies) ==
    /\ pending[s] = Idle
    /\ \E b \in bodies : pending' = [pending EXCEPT ![s] = b]
    /\ log' = [log EXCEPT ![s] = NoLog, ![0] = NoLog]
    /\ UNCHANGED <<now, tz, users, disk, scored>>

\* the synchronous rest of the POST /api/answer handler
Answer(s) ==
    /\ pending[s] # Idle
    /\ pending' = [pending EXCEPT ![s] = Idle]
    /\ \E t2 \in ClockReads, t3 \in ClockReads :
         /\ t2 <= t3
         /\ MissingFields(pending[s]) => t3 = now
         /\ LET r == HandleAnswer(loadUsers, pending[s], now, t2, t3)
                key == String(pending[s].fid)
            IN  /\ Persist(r.file)
                /\ log' = [log EXCEPT
                             ![0] = NoLog,
                             ![s] = [at |-> r.resp, others |-> Others(s)]]
                /\ scored' = IF r.isScored
                             THEN Bump(scored, <<key, r.resp.reads.today>>)
                             ELSE scored
         /\ now' = t3
    /\ UNCHANGED tz

\* the POST /api/answer handler in a run where a saveUsers call throws
AnswerWriteFails(s) ==
    /\ pending[s] # Idle
    /\ pending' = [pending EXCEPT ![s] = Idle]
    /\ \E k \in 1..Saves(loadUsers, pending[s], now, now, now) :
         LET r == HandleAnswerFailing(loadUsers, pending[s], now, now, now, k)
         IN  /\ Persist(r.file)
             /\ log' = [log EXCEPT
                          ![0] = NoLog,
                          ![s] = [at |-> r.resp, others |-> Others(s)]]
    /\ UNCHANGED <<now, tz, scored>>

\* GET /api/user/:fid
HandleGetUser(file, param, t1, t2) ==
    LET fid == parseInt(param) IN
    IF isNaN(fid)
    THEN [file |-> file,
          resp |-> [route |-> "GET /api/user", param |-> param,
                    status |-> 400, error |-> "Invalid FID"]]
    ELSE
    LET user == getUser(file, fid)
        today == getTodayString(t1)
        hasPlayedToday == user.lastPlayed = today
    IN  [file |-> getUserFile(file, fid),
         resp |-> [route |-> "GET /api/user", param |-> param,
                   status |-> 200, error |-> "",
                   user |-> user,
                   hasPlayedToday |-> hasPlayedToday,
                   todaysAnswer |-> IF hasPlayedToday
                                    THEN AnswerFor(user, today)
                                    ELSE Null,
                   reads |-> [today |-> today,
                              question |-> getTodaysQuestion(t2),
                              local |-> LocalDate(t2)]]]

\* a GET that only reads: the record it reports for an unknown id is not
\* written
GetUserReadOnly(param) ==
    \E t2 \in ClockReads :
      /\ isNaN(parseInt(param)) => t2 = now
      /\ log' = [log EXCEPT ![0] =
                 [at |-> HandleGetUser(loadUsers, param, now, t2).resp,
                  others |-> {}]]
      /\ now' = t2
      /\ UNCHANGED <<tz, users, disk, pending, scored>>

GetUser(param) ==
    \E t2 \in ClockReads :
      /\ isNaN(parseInt(param)) => t2 = now
      /\ LET r == HandleGetUser(loadUsers, param, now, t2)
         IN  /\ Persist(r.file)
             /\ log' = [log EXCEPT ![0] = [at |-> r.resp, others |-> {}]]
      /\ now' = t2
      /\ UNCHANGED <<tz, pending, scored>>

\* GET /api/user/:fid in a run where the saveUsers call of getUser throws
GetUserWriteFails(param) ==
    /\ ~isNaN(parseInt(param))
    /\ ~Has(loadUsers, String(parseInt(param)))
    /\ log' = [log EXCEPT ![0] =
               [at |-> OnWriteError(
                          HandleGetUser(loadUsers, param, now, now).resp),
                others |-> {}]]
    /\ UNCHANGED <<now, tz, users, disk, pending, scored>>

\* the users file becomes unparseable, or is removed
Damage(state) ==
    /\ disk.faults < MaxFaults
    /\ disk' = [state |-> state, faults |-> disk.faults + 1]
    /\ log' = [log EXCEPT ![0] = NoLog]
    /\ UNCHANGED <<now, tz, users, pending, scored>>

\* GET /api/question
GetQuestion ==
    \E t2 \in ClockReads :
      /\ LET q == getTodaysQuestion(now)
         IN  log' = [log EXCEPT ![0] =
                     [at |-> [route |-> "GET /api/question", status |-> 200,
                              error |-> "", id |-> q.id,
                              options |-> q.options,
                              json |-> HandleGetQuestion(questions, now, t2),
                              reads |-> [today |-> getTodayString(now),
                                         question |-> q,
                                         local |-> LocalDate(now)]],
                      others |-> {}]]
      /\ now' = t2
      /\ UNCHANGED <<tz, users, disk, pending, scored>>

\* getTodaysQuestion on two local dates (by day number) with a catalog of
\* the given size
Select(s) ==
    /\ pending[s].kind = "select"
    /\ pending' = [pending EXCEPT ![s] = Idle]
    /\ log' = [log EXCEPT ![0] =
               [at |-> [route |-> "getTodaysQuestion", status |-> 200,
                        error |-> "", size |-> pending[s].size,
                        days |-> pending[s].days,
                        index |-> [i \in 1..2 |->
                                     IndexFor(CivilOf(pending[s].days[i]),
                                              pending[s].size)]],
                others |-> {}]]
    /\ UNCHANGED <<now, tz, users, disk, scored>>

\* GET /api/leaderboard
GetLeaderboard ==
    /\ log' = [log EXCEPT ![0] =
               [at |-> [route |-> "GET /api/leaderboard", status |-> 200,
                        error |-> "", limit |-> ApiLimit,
                        leaderboard |-> getLeaderboard(loadUsers, ApiLimit)],
                others |-> {}]]
    /\ UNCHANGED <<now, tz, users, disk, pending, scored>>

\* a call getLeaderboard(limit)
Rank(limit) ==
    /\ log' = [log EXCEPT ![0] =
               [at |-> [route |-> "getLeaderboard", status |-> 200,
                        error |-> "", limit |-> limit,
                        leaderboard |-> getLeaderboard(loadUsers, limit)],
                others |-> {}]]
    /\ UNCHANGED <<now, tz, users, disk, pending, scored>>

\* the clock advances
Tick ==
    /\ now < LastTick
    /\ now' = now + 1
    /\ log' = [log EXCEPT ![0] = NoLog]
    /\ UNCHANGED <<tz, users, disk, pending, scored>>

----------------------------------------------------------------------------
(* Specifications *)

MainSlots == {1}
MainBodies ==
    {Body(Num(1), Undef, a) : a \in {Num(0), Num(1), Num(4)}}
    \cup {Body(Num(1), Str(<<"a">>), Num(0))}
MainParams == {<<"1">>}

InputBodies ==
    {Body(Str(<<"x">>), Undef, Num(0)),
     Body(Undef, Undef, Num(0)),
     Body(Num(0), Undef, Num(0)),
     Body(Num(1), Undef, Undef),
     Body(Num(1), Undef, Num(0))}
InputParams == {<<"1">>, <<"x">>, <<"1", "x">>, <<>>}

ConcBodies == {Body(Num(f), Undef, Num(0)) : f \in {1, 2}}

InitWith(slots, zones) ==
    /\ now = FirstTick
    /\ tz \in zones
    /\ users = <<>>
    /\ disk = [state |-> "ok", faults |-> 0]
    /\ pending = [s \in slots |-> Idle]
    /\ log = [s \in slots \cup {0} |-> NoLog]
    /\ scored = <<>>

Init == InitWith(MainSlots, TZOffsets)

Next ==
    \/ \E s \in MainSlots : Arrive(s, MainBodies)
    \/ \E s \in MainSlots : Answer(s)
    \/ \E p \in MainParams : GetUser(p)
    \/ GetQuestion
    \/ Tick

Spec == Init /\ [][Next]_vars

InitInput == InitWith(MainSlots, {0})

NextInput ==
    \/ \E s \in MainSlots : Arrive(s, InputBodies)
    \/ \E s \in MainSlots : Answer(s)
    \/ \E p \in InputParams : GetUser(p)
    \/ Tick

SpecInput == InitInput /\ [][NextInput]_vars

InitConc == InitWith(Slots, {0})

NextConc ==
    \/ \E s \in Slots : Arrive(s, ConcBodies)
    \/ \E s \in Slots : Answer(s)
    \/ Tick

SpecConc == InitConc /\ [][NextConc]_vars

StoreBodies == {Body(Num(1), Undef, Num(a)) : a \in {0, 1}}

InitStore == InitWith(MainSlots, {0})

NextStore ==
    \/ \E s \in MainSlots : Arrive(s, StoreBodies)
    \/ \E s \in MainSlots : Answer(s)
    \/ \E s \in MainSlots : AnswerWriteFails(s)
    \/ \E p \in MainParams : GetUser(p)
    \/ \E p \in MainParams : GetUserWriteFails(p)
    \/ \E st \in {"corrupt", "missing"} : Damage(st)
    \/ Tick

SpecStore == InitStore /\ [][NextStore]_vars

LifeBodies ==
    {Body(Num(1), Undef, Num(a)) : a \in {0, 1}}
    \cup {Body(Num(2), Undef, Num(0))}
LifeParams == {<<"1">>, <<"2">>}

InitLife == InitWith(MainSlots, {0})

NextLife ==
    \/ \E s \in MainSlots : Arrive(s, LifeBodies)
    \/ \E s \in MainSlots : Answer(s)
    \/ \E p \in LifeParams : GetUser(p)
    \/ GetLeaderboard
    \/ Tick

SpecLife == InitLife /\ [][NextLife]_vars

\* the local dates 2025-12-28 .. 2026-02-06 and the catalog sizes for the
\* selection
SelectDays == 0..40
SelectSizes == 1..CatalogSize

Selections ==
    {[kind |-> "select", size |-> n, days |-> <<k1, k2>>] :
       n \in SelectSizes,
       k1 \in SelectDays, k2 \in SelectDays}

InitSelect ==
    /\ now = FirstTick
    /\ tz = 0
    /\ users = <<>>
    /\ disk = [state |-> "ok", faults |-> 0]
    /\ pending \in [MainSlots -> {r \in Selections : r.days[1] < r.days[2]}]
    /\ log = [s \in MainSlots \cup {0} |-> NoLog]
    /\ scored = <<>>

NextSelect == \E s \in MainSlots : Select(s)

SpecSelect == InitSelect /\ [][NextSelect]_vars

\* users files for the ranking: any of the keys, each with one of the
\* (longestStreak, totalCorrect) pairs
RankKeys == {1, 2, 3}
RankScores == {<<5, 10>>, <<5, 12>>, <<3, 20>>}
RankLimits == {-2, -1, 0, 1, 2, 3, 4}

RankRecord(k, sc) ==
    [NewUser(Num(k)) EXCEPT !.longestStreak = sc[1],
                            !.totalCorrect = sc[2],
                            !.totalPlayed = sc[2]]

RankStores ==
    UNION {{[k \in {ToDec(f) : f \in present} |->
                RankRecord(DigitsValue(k, 0), pick[DigitsValue(k, 0)])] :
              pick \in [present -> RankScores]} :
           present \in SUBSET RankKeys}

InitRank ==
    /\ now = FirstTick
    /\ tz = 0
    /\ users \in RankStores
    /\ disk = [state |-> "ok", faults |-> 0]
    /\ pending = [s \in MainSlots |-> Idle]
    /\ log = [s \in MainSlots \cup {0} |-> NoLog]
    /\ scored = <<>>

NextRank ==
    \/ \E limit \in RankLimits : Rank(limit)
    \/ GetLeaderboard

SpecRank == InitRank /\ [][NextRank]_vars

----------------------------------------------------------------------------
(* Properties *)

\* the step completes the POST /api/answer handler of slot s
Completes(s) == pending[s] # Idle /\ pending'[s] = Idle

IsPost(l) == l.at.route = "POST /api/answer"
IsScored(l) == IsPost(l) /\ l.at.status = 200
IsReplay(l) == IsPost(l) /\ l.at.error = "Already played today"
KeyOf(l) == String(l.at.body.fid)

\* C1: for every user and every day key at most one submit is scored, and
\* a submit for a user who already has a scored submit under today's day
\* key is rejected and changes neither the store nor the count.
AtMostOneScoredPerDay ==
    /\ [](\A k \in DOMAIN scored : scored[k] <= 1)
    /\ [][\A s \in DOMAIN pending :
            (/\ Completes(s)
             /\ ~MissingFields(pending[s])
             /\ Has(scored, <<String(pending[s].fid), getTodayString(now)>>))
            => /\ log'[s].at.status = 400
               /\ users' = users
               /\ scored' = scored]_vars

SecondSubmitRejected ==
    \E s \in DOMAIN pending :
        /\ IsReplay(log[s])
        /\ Has(scored, <<KeyOf(log[s]), log[s].at.reads.today>>)
        /\ scored[<<KeyOf(log[s]), log[s].at.reads.today>>] = 1

\* C2: a submit by a user whose lastPlayed is today's day key fails with
\* 'Already played today' (400), carries the existing record and the stored
\* answer for today, and leaves the whole store as it was.
ReplayIsRejectedUnchanged ==
    [][\A s \in DOMAIN pending :
         LET body == pending[s]
             key == String(body.fid)
             today == getTodayString(now)
         IN  (/\ Completes(s)
              /\ ~MissingFields(body)
              /\ Has(users, key)
              /\ users[key].lastPlayed = today)
             => /\ log'[s].at.status = 400
                /\ log'[s].at.error = "Already played today"
                /\ log'[s].at.user = users[key]
                /\ Has(users[key].answers, today)
                /\ log'[s].at.todaysAnswer = users[key].answers[today]
                /\ users' = users]_vars

ReplayWithNewUsername ==
    \E s \in DOMAIN pending :
        /\ IsReplay(log[s])
        /\ log[s].at.body.username = Str(<<"a">>)
        /\ users[KeyOf(log[s])].username = Undef
        /\ log[s].at.user = users[KeyOf(log[s])]

\* C3: a scored submit sets currentStreak to old + 1 when the answer is
\* correct, the record's lastPlayed is the yesterday key and lastCorrect
\* holds, to 1 when it is correct otherwise, and to 0 when it is incorrect;
\* lastPlayed becomes today and lastCorrect becomes isCorrect, which is
\* answerIndex == correct index of the question read for today.  Yesterday
\* and the question are the values the date utilities returned to the
\* handler.
StreakTransition ==
    [][\A s \in DOMAIN pending :
         (Completes(s) /\ log'[s].at.status = 200)
         => LET body == pending[s]
                old == getUser(users, body.fid)
                new == users'[String(body.fid)]
                r == log'[s].at.reads
                isCorrect == body.answerIndex = Num(r.question.correct)
            IN  /\ new.currentStreak =
                     (IF isCorrect /\ old.lastPlayed = r.yesterday
                                   /\ old.lastCorrect
                      THEN old.currentStreak + 1
                      ELSE IF isCorrect THEN 1 ELSE 0)
                /\ new.lastPlayed = getTodayString(now)
                /\ new.lastCorrect = isCorrect
                /\ log'[s].at.isCorrect = isCorrect]_vars

StreakContinued ==
    \E s \in DOMAIN pending :
        /\ IsScored(log[s])
        /\ log[s].at.isCorrect
        /\ log[s].at.user.currentStreak = 2
        /\ users[KeyOf(log[s])].currentStreak = 2

\* the day number of a day key
DayNum(key) == CHOOSE n \in 0..(StartDay + NumDays) : CivilOf(n) = key

\* the number of consecutive day keys, ending at day number n, for which
\* answers holds a correct entry
RECURSIVE Run(_, _)
Run(answers, n) ==
    IF n >= 0 /\ Has(answers, CivilOf(n)) /\ answers[CivilOf(n)].correct
    THEN 1 + Run(answers, n - 1)
    ELSE 0

RunLength(user) ==
    IF user.lastPlayed = Null THEN 0
    ELSE Run(user.answers, DayNum(user.lastPlayed))

\* C4: in every reachable state each user's currentStreak is the length of
\* the longest run of consecutive day keys ending at lastPlayed for which
\* answers holds a correct entry (0 when the user never played or the entry
\* at lastPlayed is incorrect).
StreakIsRunLength ==
    \A k \in DOMAIN users : users[k].currentStreak = RunLength(users[k])

RECURSIVE SumOver(_, _)
SumOver(cnt, keys) ==
    IF keys = {} THEN 0
    ELSE LET k == CHOOSE x \in keys : TRUE
         IN  cnt[k] + SumOver(cnt, keys \ {k})

\* the number of scored submits of the user stored under key
ScoredCount(key) == SumOver(scored, {k \in DOMAIN scored : k[1] = key})

\* C5: of the POST /api/answer requests for one user id that are in flight
\* together under one day key at most one returns success; totalPlayed
\* grows by exactly 1 with a success and by 0 with a rejection, and equals
\* the number of scored submits (no scored update is lost).
OneWinnerPerDay ==
    /\ [](\A s1 \in DOMAIN pending, s2 \in DOMAIN pending :
            (/\ s1 # s2
             /\ IsScored(log[s1]) /\ IsScored(log[s2])
             /\ KeyOf(log[s1]) = KeyOf(log[s2]))
            => log[s1].at.reads.today # log[s2].at.reads.today)
    /\ [](\A k \in DOMAIN users : users[k].totalPlayed = ScoredCount(k))
    /\ [][\A s \in DOMAIN pending :
            (Completes(s) /\ ~MissingFields(pending[s]))
            => users'[String(pending[s].fid)].totalPlayed =
                 getUser(users, pending[s].fid).totalPlayed
                 + (IF log'[s].at.status = 200 THEN 1 ELSE 0)]_vars

RaceHasOneWinner ==
    \E s1 \in DOMAIN pending, s2 \in DOMAIN pending :
        /\ s1 # s2
        /\ IsScored(log[s1])
        /\ s2 \in log[s1].others
        /\ IsReplay(log[s2])
        /\ KeyOf(log[s1]) = KeyOf(log[s2])
        /\ log[s1].at.reads.today = log[s2].at.reads.today
        /\ users[KeyOf(log[s1])].totalPlayed = 1

\* the users file after the handler ran on file with no clock advance
After(file, body) == HandleAnswer(file, body, now, now, now).file

\* C6: submits for two distinct user ids that are in flight together are
\* both retained: running them in either order gives the same users file,
\* in which each user's record is the one its own submit produces, and a
\* completing submit leaves every other user's record as it was.
DistinctUsersIndependent ==
    /\ [](\A s1 \in DOMAIN pending, s2 \in DOMAIN pending :
            LET b1 == pending[s1]
                b2 == pending[s2]
            IN  (/\ s1 # s2
                 /\ b1 # Idle /\ b2 # Idle
                 /\ ~MissingFields(b1) /\ ~MissingFields(b2)
                 /\ String(b1.fid) # String(b2.fid))
                => /\ After(After(loadUsers, b1), b2)
                        = After(After(loadUsers, b2), b1)
                   /\ After(After(loadUsers, b1), b2)[String(b1.fid)]
                        = After(loadUsers, b1)[String(b1.fid)]
                   /\ After(After(loadUsers, b1), b2)[String(b2.fid)]
                        = After(loadUsers, b2)[String(b2.fid)])
    /\ [][\A s \in DOMAIN pending :
            (Completes(s) /\ ~MissingFields(pending[s]))
            => \A k \in DOMAIN users \ {String(pending[s].fid)} :
                  Has(users', k) /\ users'[k] = users[k]]_vars

BothUsersScored ==
    \E s1 \in DOMAIN pending, s2 \in DOMAIN pending :
        /\ s1 # s2
        /\ IsScored(log[s1]) /\ IsScored(log[s2])
        /\ KeyOf(log[s1]) # KeyOf(log[s2])
        /\ s2 \in log[s1].others
        /\ log[s1].at.reads.today = log[s2].at.reads.today
        /\ users[KeyOf(log[s1])] = log[s1].at.user
        /\ users[KeyOf(log[s2])] = log[s2].at.user

\* C7: a submit whose answerIndex is a number outside [0, number of
\* options of today's question) is rejected with a client error and leaves
\* the user's record as it was.
OutOfRangeRejected ==
    [][\A s \in DOMAIN pending :
         LET body == pending[s]
         IN  (/\ Completes(s)
              /\ ~MissingFields(body)
              /\ body.answerIndex.t = "number"
              /\ body.answerIndex.n
                   \notin 0..(getTodaysQuestion(now).options - 1))
             => /\ log'[s].at.status = 400
                /\ users'[String(body.fid)] = getUser(users, body.fid)]_vars

\* a string of decimal digits
Numeric(str) == str # <<>> /\ \A i \in 1..Len(str) : IsDigit(str[i])

\* C8: a POST /api/answer whose fid is missing or not a number, and a
\* GET /api/user/:fid whose fid is not numeric, are answered with 400 and
\* leave the users file unchanged; a POST without answerIndex is answered
\* 'Missing fid or answerIndex' and leaves the users file unchanged.
InvalidFidRejected ==
    [][/\ \A s \in DOMAIN pending :
            (Completes(s) /\ pending[s].fid.t # "number")
            => log'[s].at.status = 400 /\ users' = users
       /\ \A s \in DOMAIN pending :
            (Completes(s) /\ pending[s].answerIndex = Undef)
            => /\ log'[s].at.error = "Missing fid or answerIndex"
               /\ log'[s].at.status = 400
               /\ users' = users
       /\ (log'[0].at.route = "GET /api/user"
             /\ ~Numeric(log'[0].at.param))
            => log'[0].at.status = 400 /\ users' = users]_vars

\* the response was computed from a question: a scored submit or a
\* successful GET
HasQuestion(l) ==
    \/ IsScored(l)
    \/ l.at.route \in {"GET /api/user", "GET /api/question"}
         /\ l.at.status = 200

\* C9: all submits scored under one day key, and the GET /api/question and
\* GET /api/user/:fid responses given during that day key, use the same
\* catalog question.
OneQuestionPerDayKey ==
    \A a \in DOMAIN log, b \in DOMAIN log :
        (/\ HasQuestion(log[a]) /\ HasQuestion(log[b])
         /\ log[a].at.reads.today = log[b].at.reads.today)
        => log[a].at.reads.question = log[b].at.reads.question

\* C10: for a calendar day (year, month, day) the selection is
\* catalog[(year*10000 + month*100 + day) mod catalogSize] with the index
\* in [0, catalogSize), the same at every instant of that calendar day and
\* in every response, whatever the user records and earlier requests.
SelectionDeterministic ==
    /\ \A t \in Ticks :
          LET d == LocalDate(t)
          IN  /\ QuestionIndex(t) \in 0..(CatalogSize - 1)
              /\ QuestionIndex(t) =
                   (d[1] * 10000 + d[2] * 100 + d[3]) % CatalogSize
              /\ getTodaysQuestion(t) = questions[QuestionIndex(t)]
    /\ \A t1 \in Ticks, t2 \in Ticks :
          LocalDate(t1) = LocalDate(t2)
          => getTodaysQuestion(t1) = getTodaysQuestion(t2)
    /\ \A a \in DOMAIN log :
          HasQuestion(log[a])
          => LET d == log[a].at.reads.local
             IN  log[a].at.reads.question =
                   questions[(d[1] * 10000 + d[2] * 100 + d[3])
                             % CatalogSize]

SameDateSameQuestion ==
    \E a \in DOMAIN log, b \in DOMAIN log :
        /\ IsScored(log[a])
        /\ log[b].at.route = "GET /api/question"
        /\ log[a].at.reads.local = log[b].at.reads.local
        /\ log[a].at.reads.today # log[b].at.reads.today
        /\ log[a].at.reads.question = log[b].at.reads.question
        /\ log[a].at.user.totalPlayed > 1

\* C11: in every record longestStreak >= currentStreak; a scored submit
\* sets longestStreak to the maximum of the new currentStreak and the old
\* longestStreak, and no step decreases longestStreak.
LongestStreakIsMax ==
    /\ [](\A k \in DOMAIN users :
            users[k].longestStreak >= users[k].currentStreak)
    /\ [][/\ \A s \in DOMAIN pending :
               (Completes(s) /\ log'[s].at.status = 200)
               => LET old == getUser(users, pending[s].fid)
                      new == users'[String(pending[s].fid)]
                  IN  new.longestStreak =
                        (IF new.currentStreak >= old.longestStreak
                         THEN new.currentStreak ELSE old.longestStreak)
          /\ \A k \in DOMAIN users :
               /\ Has(users', k)
               /\ users'[k].longestStreak >= users[k].longestStreak]_vars

LongestAboveCurrent ==
    \E k \in DOMAIN users :
        /\ users[k].longestStreak = 2
        /\ users[k].currentStreak = 0
        /\ users[k].totalPlayed = 3

\* the day keys under which the user stored under key has a scored submit
ScoredDays(key) == {k[2] : k \in {x \in DOMAIN scored : x[1] = key}}

\* C12: in every record answers has an entry exactly for the day keys on
\* which that user made a scored submit, totalPlayed is the number of
\* entries, and a scored submit never overwrites an existing entry.
AnswersMatchScoredDays ==
    /\ [](\A k \in DOMAIN users :
            /\ DOMAIN users[k].answers = ScoredDays(k)
            /\ users[k].totalPlayed = Cardinality(DOMAIN users[k].answers))
    /\ [][\A s \in DOMAIN pending :
            (Completes(s) /\ log'[s].at.status = 200)
            => LET old == getUser(users, pending[s].fid)
                   new == users'[String(pending[s].fid)]
                   today == log'[s].at.reads.today
               IN  /\ ~Has(old.answers, today)
                   /\ DOMAIN new.answers = DOMAIN old.answers \cup {today}
                   /\ \A d \in DOMAIN old.answers :
                         new.answers[d] = old.answers[d]]_vars

ThreeDaysAnswered ==
    \E k \in DOMAIN users :
        /\ Cardinality(DOMAIN users[k].answers) = 3
        /\ users[k].totalPlayed = 3
        /\ ScoredDays(k) = DOMAIN users[k].answers

\* the latest of a non-empty set of day keys
Latest(days) ==
    CHOOSE d \in days : \A e \in days : DayNum(e) <= DayNum(d)

\* C13: in every record currentStreak > 0 implies that lastCorrect is true
\* and lastPlayed is set and is the most recent day key on which the user
\* made a scored submit.
PositiveStreakMeansLastCorrect ==
    \A k \in DOMAIN users :
        users[k].currentStreak > 0
        => /\ users[k].lastCorrect
           /\ users[k].lastPlayed # Null
           /\ ScoredDays(k) # {}
           /\ users[k].lastPlayed = Latest(ScoredDays(k))

StreakAfterWrongDay ==
    \E k \in DOMAIN users :
        /\ users[k].currentStreak = 1
        /\ Cardinality(ScoredDays(k)) = 2
        /\ users[k].lastPlayed = Latest(ScoredDays(k))
        /\ \E d \in DOMAIN users[k].answers : ~users[k].answers[d].correct

\* C14: in every record totalCorrect <= totalPlayed, and totalCorrect is
\* the number of entries of answers whose correct flag is true.
TotalCorrectCountsCorrect ==
    \A k \in DOMAIN users :
        /\ users[k].totalCorrect <= users[k].totalPlayed
        /\ users[k].totalCorrect =
             Cardinality({d \in DOMAIN users[k].answers :
                            users[k].answers[d].correct})

CorrectAndWrongCounted ==
    \E k \in DOMAIN users :
        /\ users[k].totalCorrect = 2
        /\ users[k].totalPlayed = 3

\* C15 as stated: after a scored submit exactly one of
\* totalCorrect <= totalPlayed and longestStreak >= currentStreak holds for
\* the updated record.
ExactlyOneInvariantHolds ==
    \A s \in DOMAIN pending :
        IsScored(log[s])
        => (log[s].at.user.totalCorrect <= log[s].at.user.totalPlayed)
             # (log[s].at.user.longestStreak
                  >= log[s].at.user.currentStreak)

\* C15 amended: after a scored submit both totalCorrect <= totalPlayed and
\* longestStreak >= currentStreak hold for the updated record, the one
\* stored and returned.
BothInvariantsHold ==
    [][\A s \in DOMAIN pending :
         (Completes(s) /\ log'[s].at.status = 200)
         => LET new == users'[String(pending[s].fid)]
            IN  /\ log'[s].at.user = new
                /\ new.totalCorrect <= new.totalPlayed
                /\ new.longestStreak >= new.currentStreak]_vars

ScoredWithBothInvariants ==
    \E s \in DOMAIN pending :
        /\ IsScored(log[s])
        /\ log[s].at.user.totalCorrect < log[s].at.user.totalPlayed
        /\ log[s].at.user.longestStreak > log[s].at.user.currentStreak

\* the response is a ranking
IsRanking(l) == l.at.route \in {"getLeaderboard", "GET /api/leaderboard"}

Above(a, b) ==
    \/ a.streak > b.streak
    \/ a.streak = b.streak /\ a.total > b.total

Smaller(a, b) == IF a <= b THEN a ELSE b

\* C16: for limit >= 1 the leaderboard has min(limit, number of users)
\* entries, each the (longestStreak, totalCorrect) of a different user,
\* ordered by longestStreak then totalCorrect, both descending; no omitted
\* user ranks strictly above an included one; users (5,10), (5,12), (3,20)
\* rank as (5,12), (5,10), (3,20).
LeaderboardRanked ==
    (IsRanking(log[0]) /\ log[0].at.limit >= 1)
    => LET lb == log[0].at.leaderboard
           all == {Entry(users[k]) : k \in DOMAIN users}
           in == {lb[i] : i \in 1..Len(lb)}
       IN  /\ Len(lb) = Smaller(log[0].at.limit, Cardinality(DOMAIN users))
           /\ in \subseteq all
           /\ Cardinality({lb[i].fid : i \in 1..Len(lb)}) = Len(lb)
           /\ \A i \in 1..Len(lb), j \in 1..Len(lb) :
                 i < j => ~Above(lb[j], lb[i])
           /\ \A o \in all \ in : \A e \in in : ~Above(o, e)
           /\ ({<<e.streak, e.total>> : e \in all} = RankScores
                 /\ Cardinality(all) = 3 /\ Len(lb) = 3)
              => [i \in 1..3 |-> <<lb[i].streak, lb[i].total>>]
                   = <<<<5, 12>>, <<5, 10>>, <<3, 20>>>>

TieBrokenAndTruncated ==
    /\ IsRanking(log[0])
    /\ log[0].at.limit = 2
    /\ Cardinality(DOMAIN users) = 3
    /\ Len(log[0].at.leaderboard) = 2
    /\ log[0].at.leaderboard[1].fid = Num(2)
    /\ log[0].at.leaderboard[1].total = 12
    /\ log[0].at.leaderboard[2].fid = Num(1)
    /\ log[0].at.leaderboard[2].total = 10

\* C17: getLeaderboard returns the empty sequence when there are no users
\* (any limit) and when limit <= 0 (any users).
EmptyForNonPositiveLimit ==
    (IsRanking(log[0])
       /\ (DOMAIN users = {} \/ log[0].at.limit <= 0))
    => log[0].at.leaderboard = <<>>

\* the response is one of GET /api/user/:fid
IsGetUser(l) == l.at.route = "GET /api/user"

\* the responses of the POST handler to body b when it starts at t on the
\* users file f
AnswersOn(f, b, t) ==
    {HandleAnswer(f, b, t, t2, t3).resp :
       t2 \in {t, t + 1}, t3 \in {t, t + 1}}

\* C18: a request that finds the users file missing or unparseable is
\* answered as on the empty store, without a server error; a submit that
\* answers success:true has its returned record in a readable users
\* file; a request whose store write failed answers 500, carries no
\* success field and leaves the user's stored counters as they were.
StorageErrorPolicy ==
    [][/\ \A s \in DOMAIN pending :
            Completes(s) =>
              LET r == log'[s].at
                  fid == pending[s].fid
              IN  /\ (disk.state # "ok" /\ r.status # 500)
                       => r \in AnswersOn(<<>>, pending[s], now)
                  /\ r.status = 200
                       => /\ r.success
                          /\ disk'.state = "ok"
                          /\ Has(users', String(fid))
                          /\ users'[String(fid)] = r.user
                  /\ r.status = 500
                       => /\ "success" \notin DOMAIN r
                          /\ getUser(loadUsers', fid) = getUser(loadUsers, fid)
       /\ (IsGetUser(log'[0]) /\ log'[0].at.status = 200)
            => LET fid == parseInt(log'[0].at.param)
               IN  /\ Has(loadUsers', String(fid))
                   /\ loadUsers'[String(fid)] = log'[0].at.user
                   /\ disk.state # "ok"
                        => /\ log'[0].at.user = NewUser(fid)
                           /\ ~log'[0].at.hasPlayedToday
                           /\ DOMAIN users' = {String(fid)}
       /\ (IsGetUser(log'[0]) /\ log'[0].at.status = 500)
            => UNCHANGED <<users, disk>>
      ]_vars

\* a submit was scored a second time under one day key after the file was
\* lost, and the last submit met a write failure
LostFileThenWriteFailure ==
    /\ disk.faults >= 1
    /\ \E k \in DOMAIN scored : scored[k] = 2
    /\ \E s \in DOMAIN pending : IsPost(log[s]) /\ log[s].at.status = 500

\* the record of a user who has never played
Zeroed(rec) ==
    /\ rec.currentStreak = 0 /\ rec.longestStreak = 0
    /\ rec.totalPlayed = 0 /\ rec.totalCorrect = 0
    /\ rec.lastPlayed = Null /\ rec.lastCorrect = FALSE
    /\ rec.answers = <<>>

\* the record after its first scored submit
PlayedOnce(rec) ==
    /\ rec.totalPlayed = 1 /\ rec.totalCorrect \in {0, 1}
    /\ rec.currentStreak = rec.totalCorrect
    /\ rec.longestStreak = rec.totalCorrect
    /\ rec.lastCorrect = (rec.totalCorrect = 1)
    /\ DOMAIN rec.answers = {rec.lastPlayed}

\* slot s completes a scored submit for key k in this step
ScoresFor(s, k) ==
    /\ Completes(s)
    /\ IsScored(log'[s])
    /\ KeyOf(log'[s]) = k

\* C19: a GET /api/user/:fid for an unknown id writes the zeroed record of
\* that id, a submit for an unknown id is scored from the zeroed record; no
\* step removes a record; a record changes only in a step that completes
\* a scored submit for its own id, which adds one to totalPlayed, keeps
\* the answers recorded so far and lowers neither totalCorrect nor
\* longestStreak.
RecordLifecycle ==
    [][/\ DOMAIN users \subseteq DOMAIN users'
       /\ (IsGetUser(log'[0]) /\ log'[0].at.status = 200)
            => LET k == String(parseInt(log'[0].at.param))
               IN  /\ Has(users', k)
                   /\ ~Has(users, k)
                        => /\ Zeroed(users'[k])
                           /\ users'[k].fid = parseInt(log'[0].at.param)
                           /\ log'[0].at.user = users'[k]
       /\ \A k \in DOMAIN users' \ DOMAIN users :
            \/ IsGetUser(log'[0]) /\ Zeroed(users'[k])
            \/ \E s \in DOMAIN pending :
                  ScoresFor(s, k) /\ PlayedOnce(users'[k])
       /\ \A k \in DOMAIN users :
            users'[k] # users[k]
              => /\ \E s \in DOMAIN pending : ScoresFor(s, k)
                 /\ users'[k].fid = users[k].fid
                 /\ users'[k].totalPlayed = users[k].totalPlayed + 1
                 /\ users'[k].totalCorrect >= users[k].totalCorrect
                 /\ users'[k].longestStreak >= users[k].longestStreak
                 /\ \A d \in DOMAIN users[k].answers :
                      /\ d \in DOMAIN users'[k].answers
                      /\ users'[k].answers[d] = users[k].answers[d]
      ]_vars

\* user 1, created by a GET, is still zeroed after user 2 has played twice
\* and the leaderboard has been read
ZeroedBesideActive ==
    /\ IsRanking(log[0])
    /\ Has(users, <<"1">>) /\ Has(users, <<"2">>)
    /\ Zeroed(users[<<"1">>])
    /\ users[<<"2">>].totalPlayed = 2

\* the user is PlayedToday at instant t
PlayedToday(rec, t) == rec.lastPlayed = getTodayString(t)

\* C20: a submit that carries fid and answerIndex is rejected exactly when
\* the user's lastPlayed equals the day key at the handler's start, and
\* is scored otherwise, leaving lastPlayed at that day key; GET
\* /api/user reports hasPlayedToday by the same test; lastPlayed is never
\* a later day than the current one, so every user is NotPlayedToday once
\* the day key has advanced.
PlayStateDerived ==
    /\ [](\A k \in DOMAIN users :
            users[k].lastPlayed # Null
              => DayNum(users[k].lastPlayed) <= DayOf(now))
    /\ [][/\ \A s \in DOMAIN pending :
               (Completes(s) /\ ~MissingFields(pending[s]))
                 => LET fid == pending[s].fid
                        before == getUser(users, fid)
                    IN  /\ PlayedToday(before, now)
                             => /\ IsReplay(log'[s])
                                /\ users'[String(fid)] = before
                        /\ ~PlayedToday(before, now)
                             => /\ IsScored(log'[s])
                                /\ users'[String(fid)].lastPlayed
                                     = getTodayString(now)
                                /\ users'[String(fid)].totalPlayed
                                     = before.totalPlayed + 1
          /\ (IsGetUser(log'[0]) /\ log'[0].at.status = 200)
               => log'[0].at.hasPlayedToday
                    = PlayedToday(
                        getUser(users, parseInt(log'[0].at.param)), now)
         ]_vars

\* a user who played on an earlier day key has just been scored again
\* under the current one
ScoredAgainOnLaterDay ==
    \E s \in DOMAIN pending :
        /\ IsScored(log[s])
        /\ users[KeyOf(log[s])].totalPlayed >= 2
        /\ PlayedToday(users[KeyOf(log[s])], now)
        /\ \E d \in DOMAIN users[KeyOf(log[s])].answers :
              DayNum(d) < DayOf(now)

\* the catalog with the correct index and the fun fact of entry i replaced
Variant(cat, i, c, f) ==
    [cat EXCEPT ![i] = [cat[i] EXCEPT !.correct = c, !.funFact = f]]

\* C21: the body of every GET /api/question response has exactly the
\* fields id, question, options, category and questionNumber, taken from
\* today's catalog entry, and is the body the handler gives on every
\* catalog that differs from the catalog only in the correct index and
\* the fun fact of today's entry.
QuestionViewHidesAnswer ==
    [][log'[0].at.route = "GET /api/question"
         => LET json == log'[0].at.json
                i == QuestionIndex(now)
            IN  /\ DOMAIN json = {"id", "question", "options", "category",
                                  "questionNumber"}
                /\ json.id = questions[i].id
                /\ json.question = questions[i].question
                /\ json.options = questions[i].options
                /\ json.category = questions[i].category
                /\ \A c \in 0..(NumOptions - 1),
                      f \in {0, questions[i].funFact, CatalogSize + 1} :
                      HandleGetQuestion(Variant(questions, i, c, f),
                                        now, now') = json
      ]_vars

\* a GET /api/question answered with an entry whose correct index is not 0
QuestionServedWithNonZeroAnswer ==
    /\ log[0].at.route = "GET /api/question"
    /\ log[0].at.reads.question.correct = 1
    /\ log[0].at.json.id = log[0].at.reads.question.id

\* C22: two different days that get the same catalog entry are more than
\* catalog-size days apart.
CollisionOnlyBeyondCatalogSize ==
    (/\ log[0].at.route = "getTodaysQuestion"
     /\ log[0].at.index[1] = log[0].at.index[2])
    => log[0].at.size < log[0].at.days[2] - log[0].at.days[1]

\* v is an entry of answers (neither null nor undefined)
IsAnswer(v) == v # Null /\ v # Undef

\* C23: in every record lastPlayed is null exactly when answers is empty,
\* and otherwise answers has an entry under lastPlayed with correct equal
\* to lastCorrect and date equal to lastPlayed; GET /api/user/:fid gives
\* hasPlayedToday = (lastPlayed = today) and an entry as todaysAnswer
\* exactly when hasPlayedToday; every 'Already played today' response
\* carries the entry of today.
LastPlayedHasAnswer ==
    /\ \A k \in DOMAIN users :
          LET u == users[k]
          IN  /\ (u.lastPlayed = Null) = (u.answers = <<>>)
              /\ u.lastPlayed # Null
                   => /\ Has(u.answers, u.lastPlayed)
                      /\ u.answers[u.lastPlayed] =
                           [correct |-> u.lastCorrect, date |-> u.lastPlayed]
    /\ (IsGetUser(log[0]) /\ log[0].at.status = 200)
         => LET r == log[0].at
            IN  /\ r.hasPlayedToday = (r.user.lastPlayed = r.reads.today)
                /\ r.hasPlayedToday = IsAnswer(r.todaysAnswer)
                /\ r.hasPlayedToday
                     => r.todaysAnswer = [correct |-> r.user.lastCorrect,
                                          date |-> r.reads.today]
    /\ \A s \in DOMAIN pending :
          IsReplay(log[s])
          => /\ IsAnswer(log[s].at.todaysAnswer)
             /\ log[s].at.todaysAnswer =
                  [correct |-> log[s].at.user.lastCorrect,
                   date |-> log[s].at.reads.today]

\* a replay on a later day of play is refused with today's correct entry
ReplayCarriesTodaysAnswer ==
    \E s \in DOMAIN pending :
        /\ IsReplay(log[s])
        /\ log[s].at.user.totalPlayed >= 2
        /\ IsAnswer(log[s].at.todaysAnswer)
        /\ log[s].at.todaysAnswer.correct

\* C24: in every scored submit the yesterday key the handler used is the
\* day key just before the today key it used, and the question it scored
\* is the one selected for that today key.
ReadsOfOneSubmitAgree ==
    \A s \in DOMAIN pending :
        IsScored(log[s])
        => LET reads == log[s].at.reads
           IN  /\ reads.yesterday = CivilOf(DayNum(reads.today) - 1)
               /\ reads.question =
                    questions[IndexFor(reads.today, CatalogSize)]

====
